---- MODULE Spec2Model ----
(***************************************************************************)
(* Model of power_law_approx.py: the power-law (elasticity) approximation  *)
(* of the two Hill-type rate laws v29 and v33.                             *)
(*                                                                         *)
(* The script is a straight-line module body.  Its state is the binding of *)
(* every module-level name (a symbol, a symbolic expression or a number),  *)
(* the lines written to standard output, and the position in the body.     *)
(*                                                                         *)
(* Numbers.  The script computes with binary floating point and real       *)
(* exponents.  The model computes exactly: a finite number is a rational   *)
(* coefficient times formal powers b^f (b a positive rational, 0 < f < 1), *)
(* which is closed under the multiplications, divisions and powers the     *)
(* script performs.  The Hill coefficients n6 and n9 range over naturals,  *)
(* so that km^n + x^n is a rational.  The two non-finite numbers of the    *)
(* algebra library, nan and zoo (complex infinity), are kept: the library  *)
(* returns them from a division by zero instead of raising.                *)
(***************************************************************************)
EXTENDS Integers, Sequences, FiniteSets, TLC

VARIABLES ref, env, stdout, pc, status, executed, subsLog

vars == <<ref, env, stdout, pc, status, executed, subsLog>>

(***************************************************************************)
(* Bounds of the reference points explored.                                *)
(***************************************************************************)
MaxX == 2
MaxN == 2

(***************************************************************************)
(* Exact arithmetic                                                        *)
(***************************************************************************)
Abs(a) == IF a < 0 THEN -a ELSE a

RECURSIVE GCD(_, _)
GCD(a, b) == IF b = 0 THEN a ELSE GCD(b, a % b)

\* A rational <<n, d>> in lowest terms with d > 0 (d # 0 on entry).
Rat(n, d) ==
    LET g == GCD(Abs(n), Abs(d))
        s == IF d < 0 THEN -1 ELSE 1
    IN  <<(s * n) \div g, (s * d) \div g>>

RMul(a, b) == Rat(a[1] * b[1], a[2] * b[2])
RAdd(a, b) == Rat(a[1] * b[2] + b[1] * a[2], a[2] * b[2])
RInv(a) == Rat(a[2], a[1])

\* floor of a rational
RFloor(a) == a[1] \div a[2]

RECURSIVE RPowNat(_, _)
RPowNat(a, k) == IF k = 0 THEN <<1, 1>> ELSE RMul(a, RPowNat(a, k - 1))

\* a^k for an integer k, a # 0 when k < 0
RPowInt(a, k) == IF k >= 0 THEN RPowNat(a, k) ELSE RPowNat(RInv(a), -k)

(***************************************************************************)
(* Numbers of the algebra library.  kind "fin": num/den times the formal   *)
(* powers of pw, a set of <<bn, bd, fn, fd>> meaning (bn/bd)^(fn/fd) with  *)
(* at most one entry per base and 0 < fn/fd < 1.  kind "nan" and "zoo" are *)
(* the library's not-a-number and complex infinity.  kind "irr" is a sum   *)
(* outside this domain; no expression of the script produces it.           *)
(***************************************************************************)
Fin(r, pw) == [kind |-> "fin", num |-> r[1], den |-> r[2], pw |-> pw]
NaN == [kind |-> "nan", num |-> 0, den |-> 1, pw |-> {}]
Zoo == [kind |-> "zoo", num |-> 0, den |-> 1, pw |-> {}]
Irr == [kind |-> "irr", num |-> 0, den |-> 1, pw |-> {}]
Int2V(i) == Fin(<<i, 1>>, {})
Zero == Int2V(0)
One == Int2V(1)

Coef(v) == <<v.num, v.den>>
IsFin(v) == v.kind = "fin"
IsZero(v) == v.kind = "fin" /\ v.num = 0
IsRational(v) == v.kind = "fin" /\ v.pw = {}

Bases(pw) == {<<t[1], t[2]>> : t \in pw}
\* the fractional exponent of base b in pw, <<0, 1>> when absent
FracOf(pw, b) ==
    IF \E t \in pw : <<t[1], t[2]>> = b
    THEN LET t == CHOOSE t \in pw : <<t[1], t[2]>> = b IN <<t[3], t[4]>>
    ELSE <<0, 1>>

\* product of the formal powers of two numbers: exponents of a common base
\* add up; a sum >= 1 carries one factor of the base into the coefficient.
PwSum(p, q, b) == RAdd(FracOf(p, b), FracOf(q, b))
PwMerge(p, q) ==
    {<<b[1], b[2], RAdd(PwSum(p, q, b), <<-RFloor(PwSum(p, q, b)), 1>>)[1],
                   RAdd(PwSum(p, q, b), <<-RFloor(PwSum(p, q, b)), 1>>)[2]>> :
        b \in {c \in Bases(p) \cup Bases(q) :
                 RAdd(PwSum(p, q, c), <<-RFloor(PwSum(p, q, c)), 1>>)[1] # 0}}

RECURSIVE PwCarry(_, _, _)
PwCarry(p, q, bs) ==
    IF bs = {} THEN <<1, 1>>
    ELSE LET b == CHOOSE c \in bs : TRUE
         IN  RMul(IF RFloor(PwSum(p, q, b)) >= 1 THEN b ELSE <<1, 1>>,
                  PwCarry(p, q, bs \ {b}))

VMul(a, b) ==
    IF a.kind = "nan" \/ b.kind = "nan" THEN NaN
    ELSE IF a.kind = "irr" \/ b.kind = "irr" THEN Irr
    ELSE IF a.kind = "zoo" \/ b.kind = "zoo"
         THEN IF IsZero(a) \/ IsZero(b) THEN NaN ELSE Zoo
    ELSE IF a.num = 0 \/ b.num = 0 THEN Zero
    ELSE Fin(RMul(RMul(Coef(a), Coef(b)),
                  PwCarry(a.pw, b.pw, Bases(a.pw) \cup Bases(b.pw))),
             PwMerge(a.pw, b.pw))

\* 1/a: the library returns zoo for 1/0 and 0 for 1/zoo, and raises nothing.
\* b^-f = b^-1 * b^(1-f)
PwInv(p) == {<<t[1], t[2], RAdd(<<1, 1>>, <<-t[3], t[4]>>)[1],
                           RAdd(<<1, 1>>, <<-t[3], t[4]>>)[2]>> : t \in p}

RECURSIVE BaseProd(_)
BaseProd(bs) ==
    IF bs = {} THEN <<1, 1>>
    ELSE LET b == CHOOSE c \in bs : TRUE IN RMul(b, BaseProd(bs \ {b}))

VInv(a) ==
    IF a.kind \in {"nan", "irr"} THEN a
    ELSE IF a.kind = "zoo" THEN Zero
    ELSE IF a.num = 0 THEN Zoo
    ELSE Fin(RMul(RInv(Coef(a)), RInv(BaseProd(Bases(a.pw)))), PwInv(a.pw))

VDiv(a, b) == VMul(a, VInv(b))

VAdd(a, b) ==
    IF a.kind = "nan" \/ b.kind = "nan" THEN NaN
    ELSE IF a.kind = "irr" \/ b.kind = "irr" THEN Irr
    ELSE IF a.kind = "zoo" \/ b.kind = "zoo"
         THEN IF a.kind = b.kind THEN NaN ELSE Zoo
    ELSE IF a.num = 0 THEN b
    ELSE IF b.num = 0 THEN a
    ELSE IF a.pw = b.pw
         THEN (IF RAdd(Coef(a), Coef(b))[1] = 0 THEN Zero
               ELSE Fin(RAdd(Coef(a), Coef(b)), a.pw))
    ELSE Irr

RECURSIVE VPowNat(_, _)
VPowNat(b, k) == IF k = 0 THEN One ELSE VMul(b, VPowNat(b, k - 1))

\* b ** e as the library evaluates it on numbers: e = 0 gives 1, 0 ** e is
\* 0 or zoo, an integer e is a repeated product, and a positive rational b
\* to a fractional e = k + f is b^k times the formal power b^f (1 ** e = 1).
VPow(b, e) ==
    IF e.kind = "zoo" THEN NaN
    ELSE IF IsZero(e) THEN One
    ELSE IF b.kind = "nan" \/ e.kind = "nan" THEN NaN
    ELSE IF b.kind = "irr" \/ e.kind = "irr" \/ ~IsRational(e) THEN Irr
    ELSE IF b.kind = "zoo" THEN (IF e.num > 0 THEN Zoo ELSE Zero)
    ELSE IF b.num = 0 THEN (IF e.num > 0 THEN Zero ELSE Zoo)
    ELSE IF e.den = 1
         THEN (IF e.num > 0 THEN VPowNat(b, e.num) ELSE VPowNat(VInv(b), -e.num))
    ELSE IF ~IsRational(b) \/ b.num < 0 THEN Irr
    ELSE IF Coef(b) = <<1, 1>> THEN One
    ELSE LET k == RFloor(Coef(e))
             f == RAdd(Coef(e), <<-k, 1>>)
         IN  VMul(Fin(RPowInt(Coef(b), k), {}),
                  Fin(<<1, 1>>, {<<b.num, b.den, f[1], f[2]>>}))

(***************************************************************************)
(* Expressions of the algebra library: <<"sym", name>>, <<"num", number>>, *)
(* <<"add", l, r>>, <<"mul", l, r>>, <<"pow", base, exp>>, <<"log", arg>>. *)
(* A Python float is a <<"num", number>> too.  The constructors evaluate   *)
(* as the library does when an expression is built: numbers are folded,    *)
(* 0*e = 0, 1*e = e, 0+e = e, e**0 = 1, e**1 = e, 1**e = 1.                *)
(***************************************************************************)
Sym(name) == <<"sym", name>>
Num(v) == <<"num", v>>
Unbound == <<"unbound">>

IsNum(e) == e[1] = "num"
IsSym(e) == e[1] = "sym"
IsNumV(e, v) == e[1] = "num" /\ e[2] = v

MkAdd(a, b) ==
    IF IsNum(a) /\ IsNum(b) THEN Num(VAdd(a[2], b[2]))
    ELSE IF IsNumV(a, NaN) \/ IsNumV(b, NaN) THEN Num(NaN)
    ELSE IF IsNumV(a, Zero) THEN b
    ELSE IF IsNumV(b, Zero) THEN a
    ELSE <<"add", a, b>>

MkMul(a, b) ==
    IF IsNum(a) /\ IsNum(b) THEN Num(VMul(a[2], b[2]))
    ELSE IF IsNumV(a, NaN) \/ IsNumV(b, NaN) THEN Num(NaN)
    ELSE IF IsNumV(a, Zero) \/ IsNumV(b, Zero) THEN Num(Zero)
    ELSE IF IsNumV(a, One) THEN b
    ELSE IF IsNumV(b, One) THEN a
    ELSE <<"mul", a, b>>

MkPow(b, e) ==
    IF IsNum(b) /\ IsNum(e) THEN Num(VPow(b[2], e[2]))
    ELSE IF IsNumV(e, Zero) THEN Num(One)
    ELSE IF IsNumV(e, One) THEN b
    ELSE IF IsNumV(b, One) THEN Num(One)
    ELSE <<"pow", b, e>>

\* a / b is built as a * b**-1
MkDiv(a, b) == MkMul(a, MkPow(b, Num(Int2V(-1))))

MkLog(a) == IF IsNumV(a, One) THEN Num(Zero)
            ELSE IF IsNum(a) THEN Num(Irr)
            ELSE <<"log", a>>

RECURSIVE FreeSymbols(_)
FreeSymbols(e) ==
    IF e[1] = "sym" THEN {e[2]}
    ELSE IF e[1] \in {"add", "mul", "pow"} THEN FreeSymbols(e[2]) \cup FreeSymbols(e[3])
    ELSE IF e[1] = "log" THEN FreeSymbols(e[2])
    ELSE {}

\* diff(e, x) for the symbol named x: 0 when e is free of x, the sum and
\* product rules, and for a power b**c the library's form
\*     b**c * (dc * log(b) + db * c / b)
RECURSIVE Diff(_, _)
\* Faulty variant: the power rule without the division by the base.
DiffPowerNoBase(e, x) ==
    IF x \notin FreeSymbols(e) THEN Num(Zero)
    ELSE IF e[1] = "sym" THEN Num(One)
    ELSE IF e[1] = "add" THEN MkAdd(Diff(e[2], x), Diff(e[3], x))
    ELSE IF e[1] = "mul" THEN MkAdd(MkMul(Diff(e[2], x), e[3]),
                                    MkMul(e[2], Diff(e[3], x)))
    ELSE IF e[1] = "pow" THEN
         MkMul(e, MkAdd(MkMul(Diff(e[3], x), MkLog(e[2])),
                        MkMul(Diff(e[2], x), e[3])))
    ELSE MkDiv(Diff(e[2], x), e[2])
Diff(e, x) ==
    IF x \notin FreeSymbols(e) THEN Num(Zero)
    ELSE IF e[1] = "sym" THEN Num(One)
    ELSE IF e[1] = "add" THEN MkAdd(Diff(e[2], x), Diff(e[3], x))
    ELSE IF e[1] = "mul" THEN MkAdd(MkMul(Diff(e[2], x), e[3]),
                                    MkMul(e[2], Diff(e[3], x)))
    ELSE IF e[1] = "pow" THEN
         MkMul(e, MkAdd(MkMul(Diff(e[3], x), MkLog(e[2])),
                        MkDiv(MkMul(Diff(e[2], x), e[3]), e[2])))
    ELSE MkDiv(Diff(e[2], x), e[2])

\* e.subs(m): every symbol named in m is replaced by its number and the
\* expression is rebuilt, which folds the numbers.
RECURSIVE Subs(_, _)
Subs(e, m) ==
    IF e[1] = "sym" THEN (IF e[2] \in DOMAIN m THEN Num(m[e[2]]) ELSE e)
    ELSE IF e[1] = "add" THEN MkAdd(Subs(e[2], m), Subs(e[3], m))
    ELSE IF e[1] = "mul" THEN MkMul(Subs(e[2], m), Subs(e[3], m))
    ELSE IF e[1] = "pow" THEN MkPow(Subs(e[2], m), Subs(e[3], m))
    ELSE IF e[1] = "log" THEN MkLog(Subs(e[2], m))
    ELSE e

(***************************************************************************)
(* The script                                                              *)
(***************************************************************************)
Names == {"v29", "k29", "x28", "n6", "km6", "x34",
          "v33", "k33", "x36", "x31", "n9", "km9",
          "pv29x28", "pv29x34", "pv33x36", "pv33x31",
          "p29", "q29", "p33", "q33", "k29p", "k33p"}

RefNames == {"k29", "x28", "n6", "km6", "x34", "k33", "x36", "x31", "n9", "km9"}

\* Faulty variant: the names are rebound to literals before the subs calls.
OrderRebindFirst ==
    <<"L29", "L32", "L33", "L36", "L37",
      "L40", "L41", "L43", "L44",
      "L65", "L66", "L67", "L68",
      "L49", "L50", "L52", "L53", "L56", "L57",
      "L70", "L71", "L72", "L73", "L74", "L75", "L76", "L77",
      "L79", "L80", "L81", "L82", "L83", "L84", "L85", "L86",
      "L89", "L90", "L91", "L92",
      "L94", "L95", "L96", "L97">>
\* Faulty variant: each value is computed before its label is printed.
OrderComputeFirst ==
    <<"L29", "L32", "L33", "L36", "L37",
      "L40", "L41", "L43", "L44",
      "L49", "L50", "L52", "L53", "L56", "L57",
      "L65", "L66", "L67", "L68",
      "L71", "L70", "L72", "L73", "L75", "L74", "L76", "L77",
      "L80", "L79", "L81", "L82", "L84", "L83", "L85", "L86",
      "L90", "L89", "L91", "L92",
      "L95", "L94", "L96", "L97">>
\* The statements of the module body, named by their source line, in order.
Order ==
    <<"L29", "L32", "L33", "L36", "L37",
      "L40", "L41", "L43", "L44",
      "L49", "L50", "L52", "L53", "L56", "L57",
      "L65", "L66", "L67", "L68",
      "L70", "L71", "L72", "L73", "L74", "L75", "L76", "L77",
      "L79", "L80", "L81", "L82", "L83", "L84", "L85", "L86",
      "L89", "L90", "L91", "L92",
      "L94", "L95", "L96", "L97">>

\* The reference points explored stand for the numeric literals of the
\* script: rate constants, Hill coefficients, half-saturation constants and
\* concentrations.  At most one of the ten values is zero.
KVals == {0, 2}
XVals == 0 .. MaxX
NVals == 0 .. MaxN
KmVals == {0, 1, 3}
YVals == {0, 3}

RefPoints ==
    {r \in [k29 : KVals, x28 : XVals, n6 : NVals, km6 : KmVals, x34 : YVals,
            k33 : KVals, x36 : YVals, x31 : XVals, n9 : NVals, km9 : KmVals] :
        Cardinality({f \in RefNames : r[f] = 0}) <= 1}

\* Faulty variant: the derivative is evaluated at another value of x28.
Args49Other == <<<<"k29", ref.k29>>, <<"x28", ref.x28 + 1>>, <<"n6", ref.n6>>,
                 <<"km6", ref.km6>>, <<"x34", ref.x34>>>>
\* The (symbol, value) lists passed to subs, one per call.
Args49 == <<<<"k29", ref.k29>>, <<"x28", ref.x28>>, <<"n6", ref.n6>>,
            <<"km6", ref.km6>>, <<"x34", ref.x34>>>>
Args50 == <<<<"k29", ref.k29>>, <<"x28", ref.x28>>, <<"n6", ref.n6>>,
            <<"km6", ref.km6>>, <<"x34", ref.x34>>>>
Args52 == <<<<"k33", ref.k33>>, <<"x36", ref.x36>>, <<"x31", ref.x31>>,
            <<"n9", ref.n9>>, <<"km9", ref.km9>>>>
Args53 == <<<<"k33", ref.k33>>, <<"x36", ref.x36>>, <<"x31", ref.x31>>,
            <<"n9", ref.n9>>, <<"km9", ref.km9>>>>
Args56 == <<<<"k29", ref.k29>>, <<"x28", ref.x28>>, <<"n6", ref.n6>>,
            <<"km6", ref.km6>>, <<"x34", ref.x34>>>>
Args57 == <<<<"k33", ref.k33>>, <<"x36", ref.x36>>, <<"x31", ref.x31>>,
            <<"n9", ref.n9>>, <<"km9", ref.km9>>>>

\* Faulty variant: x28 is rebound to a literal other than the one substituted.
Lit65Other == ref.x28 + 1
\* The literals the variable names are rebound to.
Lit65 == ref.x28
Lit66 == ref.x34
Lit67 == ref.x36
Lit68 == ref.x31

\* Lines of standard output: a text line or the printed form of a value.
TextLine(t) == [t |-> "text", s |-> t, v |-> Unbound]
ValueLine(e) == [t |-> "value", s |-> "", v |-> e]

NoLog == [f \in RefNames |-> -1]

Init ==
    /\ ref \in RefPoints
    /\ env = [n \in Names |-> Unbound]
    /\ stdout = <<>>
    /\ pc = 1
    /\ status = "running"
    /\ executed = <<>>
    /\ subsLog = [l \in {"L49", "L50", "L52", "L53", "L56", "L57"} |-> NoLog]

\* The interpreter is about to run statement l.
At(l) == status = "running" /\ pc <= Len(Order) /\ Order[pc] = l

\* Statement l completed: control moves to the next statement.
Advance(l) == /\ pc' = pc + 1
              /\ executed' = Append(executed, l)
              /\ status' = status
              /\ ref' = ref

Bind(name, e) == env' = [env EXCEPT ![name] = e]

\* print(x): the text of x and a line terminator.
PrintText(t) == stdout' = Append(stdout, TextLine(t))
PrintValue(e) == stdout' = Append(stdout, ValueLine(e))
\* Faulty variant: a single line terminator.
PrintNewlineOnce == stdout' = Append(stdout, TextLine(""))
\* print('\n'): a newline character and print's own line terminator.
PrintNewline == stdout' = stdout \o <<TextLine(""), TextLine("")>>

\* names = symbols('...')
Symbols(l, names) ==
    /\ At(l)
    /\ env' = [n \in Names |-> IF n \in names THEN Sym(n) ELSE env[n]]
    /\ UNCHANGED <<stdout, subsLog>>
    /\ Advance(l)

\* target = diff(env[src], env[var]); the library raises when the variable
\* of differentiation is not a symbol.
DiffStmt(l, target, src, var) ==
    /\ At(l)
    /\ IF IsSym(env[var])
       THEN /\ Bind(target, Diff(env[src], env[var][2]))
            /\ UNCHANGED <<stdout, subsLog>>
            /\ Advance(l)
       ELSE /\ status' = "raised"
            /\ UNCHANGED <<ref, env, stdout, pc, executed, subsLog>>

\* The mapping of a subs call: the pairs whose key is, when the call is
\* made, bound to a symbol.
SubsMap(args) ==
    LET keyed == {i \in 1 .. Len(args) : IsSym(env[args[i][1]])}
    IN  [n \in {env[args[i][1]][2] : i \in keyed} |->
            Int2V(args[CHOOSE i \in keyed : env[args[i][1]][2] = n][2])]

ArgsLog(args) ==
    [f \in RefNames |->
        IF \E i \in 1 .. Len(args) : args[i][1] = f
        THEN args[CHOOSE i \in 1 .. Len(args) : args[i][1] = f][2]
        ELSE -1]

\* target = env[target].subs(args)
SubsStmt(l, target, args) ==
    /\ At(l)
    /\ Bind(target, Subs(env[target], SubsMap(args)))
    /\ subsLog' = [subsLog EXCEPT ![l] = ArgsLog(args)]
    /\ UNCHANGED stdout
    /\ Advance(l)

\* name = literal
Rebind(l, name, lit) ==
    /\ At(l)
    /\ Bind(name, Num(Int2V(lit)))
    /\ UNCHANGED <<stdout, subsLog>>
    /\ Advance(l)

PrintLabel(l, t) ==
    /\ At(l)
    /\ PrintText(t)
    /\ UNCHANGED <<env, subsLog>>
    /\ Advance(l)

PrintName(l, name) ==
    /\ At(l)
    /\ PrintValue(env[name])
    /\ UNCHANGED <<env, subsLog>>
    /\ Advance(l)

PrintBlank(l) ==
    /\ At(l)
    /\ PrintNewline
    /\ UNCHANGED <<env, subsLog>>
    /\ Advance(l)

Assign(l, name, e) ==
    /\ At(l)
    /\ Bind(name, e)
    /\ UNCHANGED <<stdout, subsLog>>
    /\ Advance(l)

\* The right-hand sides of the script.
HillRate29 ==
    MkMul(MkMul(env["k29"],
                MkDiv(MkPow(env["x28"], env["n6"]),
                      MkAdd(MkPow(env["km6"], env["n6"]),
                            MkPow(env["x28"], env["n6"])))),
          env["x34"])
HillRate33 ==
    MkMul(MkMul(env["k33"], env["x36"]),
          MkDiv(MkPow(env["x31"], env["n9"]),
                MkAdd(MkPow(env["km9"], env["n9"]),
                      MkPow(env["x31"], env["n9"]))))

\* Faulty variants: the multiplier x left out; a zero rate answered with 0.
ElasticityNoX(pv, x, v) == MkDiv(env[pv], env[v])
ElasticityGuarded(pv, x, v) ==
    IF IsNumV(env[v], Zero) THEN Num(Zero) ELSE MkDiv(MkMul(env[pv], env[x]), env[v])
\* pv * x / v
Elasticity(pv, x, v) == MkDiv(MkMul(env[pv], env[x]), env[v])
\* Faulty variant: the exponent p used for both variables.
RateConstantSameExp(v, x, p, y, q) ==
    MkDiv(env[v], MkMul(MkPow(env[x], env[p]), MkPow(env[y], env[p])))
\* v / (x**p * y**q)
RateConstant(v, x, p, y, q) ==
    MkDiv(env[v], MkMul(MkPow(env[x], env[p]), MkPow(env[y], env[q])))

L29 == At("L29") /\ UNCHANGED <<env, stdout, subsLog>> /\ Advance("L29")
L32 == Symbols("L32", {"v29", "k29", "x28", "n6", "km6", "x34"})
L33 == Symbols("L33", {"v33", "k33", "x36", "x31", "n9", "km9"})
L36 == Assign("L36", "v29", HillRate29)
L37 == Assign("L37", "v33", HillRate33)
L40 == DiffStmt("L40", "pv29x28", "v29", "x28")
L41 == DiffStmt("L41", "pv29x34", "v29", "x34")
L43 == DiffStmt("L43", "pv33x36", "v33", "x36")
L44 == DiffStmt("L44", "pv33x31", "v33", "x31")
L49 == SubsStmt("L49", "pv29x28", Args49)
L50 == SubsStmt("L50", "pv29x34", Args50)
L52 == SubsStmt("L52", "pv33x36", Args52)
L53 == SubsStmt("L53", "pv33x31", Args53)
L56 == SubsStmt("L56", "v29", Args56)
L57 == SubsStmt("L57", "v33", Args57)
L65 == Rebind("L65", "x28", Lit65)
L66 == Rebind("L66", "x34", Lit66)
L67 == Rebind("L67", "x36", Lit67)
L68 == Rebind("L68", "x31", Lit68)
L70 == PrintLabel("L70", "p29 =")
L71 == Assign("L71", "p29", Elasticity("pv29x28", "x28", "v29"))
L72 == PrintName("L72", "p29")
L73 == PrintBlank("L73")
L74 == PrintLabel("L74", "q29 =")
L75 == Assign("L75", "q29", Elasticity("pv29x34", "x34", "v29"))
L76 == PrintName("L76", "q29")
L77 == PrintBlank("L77")
L79 == PrintLabel("L79", "p33 =")
L80 == Assign("L80", "p33", Elasticity("pv33x36", "x36", "v33"))
L81 == PrintName("L81", "p33")
L82 == PrintBlank("L82")
L83 == PrintLabel("L83", "q33 =")
L84 == Assign("L84", "q33", Elasticity("pv33x31", "x31", "v33"))
L85 == PrintName("L85", "q33")
L86 == PrintBlank("L86")
L89 == PrintLabel("L89", "k29p =")
L90 == Assign("L90", "k29p", RateConstant("v29", "x28", "p29", "x34", "q29"))
L91 == PrintName("L91", "k29p")
L92 == PrintBlank("L92")
L94 == PrintLabel("L94", "k33p =")
L95 == Assign("L95", "k33p", RateConstant("v33", "x36", "p33", "x31", "q33"))
L96 == PrintName("L96", "k33p")
L97 == PrintBlank("L97")

\* Faulty variant: the exception is swallowed and the next statement runs.
RaiseSwallowed ==
    /\ status = "running"
    /\ pc <= Len(Order)
    /\ pc' = pc + 1
    /\ UNCHANGED <<ref, env, stdout, status, executed, subsLog>>

\* An exception raised while the statement at pc runs (the library, the
\* import or the output stream fails): it is not caught, the statement does
\* not complete and the interpreter stops there with a non-zero status.
Raise ==
    /\ status = "running"
    /\ pc <= Len(Order)
    /\ status' = "raised"
    /\ UNCHANGED <<ref, env, stdout, pc, executed, subsLog>>

\* The end of the module body: the interpreter exits with status 0.
Exit ==
    /\ status = "running"
    /\ pc = Len(Order) + 1
    /\ status' = "ok"
    /\ UNCHANGED <<ref, env, stdout, pc, executed, subsLog>>

ExitStatus == IF status = "ok" THEN 0 ELSE IF status = "raised" THEN 1 ELSE -1

Next ==
    \/ L29 \/ L32 \/ L33 \/ L36 \/ L37
    \/ L40 \/ L41 \/ L43 \/ L44
    \/ L49 \/ L50 \/ L52 \/ L53 \/ L56 \/ L57
    \/ L65 \/ L66 \/ L67 \/ L68
    \/ L70 \/ L71 \/ L72 \/ L73
    \/ L74 \/ L75 \/ L76 \/ L77
    \/ L79 \/ L80 \/ L81 \/ L82
    \/ L83 \/ L84 \/ L85 \/ L86
    \/ L89 \/ L90 \/ L91 \/ L92
    \/ L94 \/ L95 \/ L96 \/ L97
    \/ Raise
    \/ Exit

Spec == Init /\ [][Next]_vars

(***************************************************************************)
(* Properties                                                              *)
(***************************************************************************)
Executed(l) == \E i \in 1 .. Len(executed) : executed[i] = l

\* The rate of a reaction is non-zero at the reference point exactly when
\* its rate constant, Hill variable and linear variable are non-zero.
Positive29 == ref.k29 # 0 /\ ref.x28 # 0 /\ ref.x34 # 0
Positive33 == ref.k33 # 0 /\ ref.x31 # 0 /\ ref.x36 # 0

OutputNames == <<"p29", "q29", "p33", "q33", "k29p", "k33p">>
Labels == <<"p29 =", "q29 =", "p33 =", "q33 =", "k29p =", "k33p =">>
ComputeStmts == <<"L71", "L75", "L80", "L84", "L90", "L95">>

\* k' * x**p * y**q at the current bindings
Monomial(k, x, p, y, q) ==
    MkMul(MkMul(env[k], MkPow(env[x], env[p])), MkPow(env[y], env[q]))

\* d/dx (k' * x**p * y**q) = k' * p * x**(p-1) * y**q at the current bindings
MonomialDx(k, x, p, y, q) ==
    MkMul(MkMul(MkMul(env[k], env[p]),
                MkPow(env[x], MkAdd(env[p], Num(Int2V(-1))))),
          MkPow(env[y], env[q]))

\* C1: once the new rate constant of a reaction is computed, the monomial
\* k' * x**p * y**q evaluated at the reference point equals the rate v
\* evaluated there (for a reference point where the rate is non-zero, as
\* with the script's literals).
C1_RoundTrip ==
    /\ (Executed("L90") /\ Positive29) =>
          Monomial("k29p", "x28", "p29", "x34", "q29") = env["v29"]
    /\ (Executed("L95") /\ Positive33) =>
          Monomial("k33p", "x36", "p33", "x31", "q33") = env["v33"]

\* a run that completed at a point where both Hill exponents are fractions
\* strictly between 0 and 1 and x28, x31 are not 1, so that both new rate
\* constants carry a real power
C1_Witness ==
    /\ status = "ok" /\ Positive29 /\ Positive33
    /\ IsNum(env["k29p"]) /\ env["k29p"][2].pw # {}
    /\ IsNum(env["k33p"]) /\ env["k33p"][2].pw # {}

\* n * km^n / (km^n + x^n)
HillElasticity(n, km, x) ==
    VDiv(VMul(Int2V(n), VPow(Int2V(km), Int2V(n))),
         VAdd(VPow(Int2V(km), Int2V(n)), VPow(Int2V(x), Int2V(n))))

\* C2: the exponent of the Hill variable equals the closed-form Hill
\* elasticity n * km^n / (km^n + x^n) at the reference point, a function of
\* n, km and x alone: it depends neither on the rate constant nor on the
\* linear variable.
C2_HillElasticity ==
    /\ (Executed("L71") /\ Positive29) =>
          env["p29"] = Num(HillElasticity(ref.n6, ref.km6, ref.x28))
    /\ (Executed("L84") /\ Positive33) =>
          env["q33"] = Num(HillElasticity(ref.n9, ref.km9, ref.x31))

C2_Witness ==
    /\ Executed("L84") /\ Positive29 /\ Positive33
    /\ IsNum(env["p29"]) /\ env["p29"][2].den > 1
    /\ IsNum(env["q33"]) /\ env["q33"][2].den > 1
    /\ env["p29"] # env["q33"]

HillSum(n, km, x) == VAdd(VPow(Int2V(km), Int2V(n)), VPow(Int2V(x), Int2V(n)))
HillDx(k, n, km, x, y) ==
    VDiv(VMul(VMul(Int2V(k * y * n), VPow(Int2V(km), Int2V(n))),
              VPow(Int2V(x), Int2V(n - 1))),
         VMul(HillSum(n, km, x), HillSum(n, km, x)))
HillDy(k, n, km, x) ==
    VDiv(VMul(Int2V(k), VPow(Int2V(x), Int2V(n))), HillSum(n, km, x))

\* C4: at the reference point the fitted monomial agrees with the original
\* rate law to first order: its value equals the rate's value and its
\* partial derivative with respect to each of the two variables equals the
\* evaluated partial derivative of the rate (pv29x28, pv29x34, pv33x36,
\* pv33x31), which are the derivatives of the rate law in closed form.
C4_FirstOrderAgreement ==
    /\ (Executed("L90") /\ Positive29) =>
          /\ Monomial("k29p", "x28", "p29", "x34", "q29") = env["v29"]
          /\ env["pv29x28"] = Num(HillDx(ref.k29, ref.n6, ref.km6, ref.x28, ref.x34))
          /\ env["pv29x34"] = Num(HillDy(ref.k29, ref.n6, ref.km6, ref.x28))
          /\ MonomialDx("k29p", "x28", "p29", "x34", "q29") = env["pv29x28"]
          /\ MonomialDx("k29p", "x34", "q29", "x28", "p29") = env["pv29x34"]
    /\ (Executed("L95") /\ Positive33) =>
          /\ Monomial("k33p", "x36", "p33", "x31", "q33") = env["v33"]
          /\ env["pv33x31"] = Num(HillDx(ref.k33, ref.n9, ref.km9, ref.x31, ref.x36))
          /\ env["pv33x36"] = Num(HillDy(ref.k33, ref.n9, ref.km9, ref.x31))
          /\ MonomialDx("k33p", "x36", "p33", "x31", "q33") = env["pv33x36"]
          /\ MonomialDx("k33p", "x31", "q33", "x36", "p33") = env["pv33x31"]

C4_Witness ==
    /\ Executed("L95") /\ Positive29 /\ Positive33
    /\ IsNum(env["pv29x28"]) /\ ~IsZero(env["pv29x28"][2])
    /\ IsNum(env["pv33x31"]) /\ ~IsZero(env["pv33x31"][2])
    /\ IsNum(env["k29p"]) /\ env["k29p"][2].pw # {}
    /\ MonomialDx("k29p", "x28", "p29", "x34", "q29") = env["pv29x28"]

SomeZero == \E f \in RefNames : ref[f] = 0
IsNaNExpr(e) == e = Num(NaN)
IsFiniteExpr(e) == IsNum(e) /\ IsFin(e[2])

Block3(i) == <<TextLine(Labels[i]), ValueLine(env[OutputNames[i]]), TextLine("")>>
Block4(i) == <<TextLine(Labels[i]), ValueLine(env[OutputNames[i]]),
               TextLine(""), TextLine("")>>

RECURSIVE Blocks3(_)
Blocks3(k) == IF k = 0 THEN <<>> ELSE Blocks3(k - 1) \o Block3(k)
RECURSIVE Blocks4(_)
Blocks4(k) == IF k = 0 THEN <<>> ELSE Blocks4(k - 1) \o Block4(k)

\* C6 as stated: a successful run has written exactly six blocks, each its
\* label line, its value and one blank line.
C6_SixBlocksOneBlank == status = "ok" => stdout = Blocks3(6)

\* C6 as amended: a successful run has written exactly six blocks in the
\* order p29, q29, p33, q33, k29p, k33p, each its label line, the value of
\* that name and two blank lines (print('\n') writes a newline character and
\* then print's own line terminator), and nothing else.
C6_SixBlocksTwoBlanks == status = "ok" => stdout = Blocks4(6)

C6_Witness ==
    /\ status = "ok" /\ Len(stdout) = 24
    /\ stdout[21] = TextLine("k33p =") /\ stdout[22] = ValueLine(env["k33p"])
    /\ IsNum(env["k33p"])

\* C7: every run is one sequential pass that ends in exactly one of two
\* outcomes.  Each step is taken by a running interpreter and either runs
\* the statement at pc and moves to the next one or ends the run, so a run
\* has at most Len(Order) + 1 steps; the statements executed are always a
\* prefix of the body in order (none twice, none after a failing one); the
\* run is never stuck before an outcome; on success the whole body ran, six
\* values are printed and the status is 0; on an exception the run stopped
\* at the failing statement with a non-zero status.
C7_StepOnce ==
    /\ status = "running"
    /\ \/ /\ status' = "running" /\ pc' = pc + 1
          /\ executed' = Append(executed, Order[pc])
          /\ ~Executed(Order[pc])
       \/ /\ status' = "raised" /\ pc <= Len(Order)
          /\ pc' = pc /\ executed' = executed /\ stdout' = stdout
       \/ /\ status' = "ok" /\ pc = Len(Order) + 1
          /\ pc' = pc /\ executed' = executed /\ stdout' = stdout

C7_Outcome ==
    /\ pc <= Len(Order) + 1
    /\ executed = SubSeq(Order, 1, pc - 1)
    /\ status \in {"running", "ok", "raised"}
    /\ status = "running" => ENABLED (Raise \/ Exit)
    /\ status = "ok" =>
          /\ executed = Order /\ ExitStatus = 0
          /\ Cardinality({i \in 1 .. Len(stdout) : stdout[i].t = "value"}) = 6
    /\ status = "raised" => ExitStatus # 0 /\ pc <= Len(Order)

C7_OnePass == []C7_Outcome /\ [][C7_StepOnce]_vars

C7_Witness == status = "raised" /\ pc <= Len(Order) /\ Order[pc] = "L56"

\* the differentiations and substitutions of the body: statement, expression
\* differentiated and variable; statement and the names its list is keyed on
DiffStmts == {<<"L40", "v29", "x28">>, <<"L41", "v29", "x34">>,
              <<"L43", "v33", "x36">>, <<"L44", "v33", "x31">>}
SubsStmts == {<<"L49", {"k29", "x28", "n6", "km6", "x34"}>>,
              <<"L50", {"k29", "x28", "n6", "km6", "x34"}>>,
              <<"L52", {"k33", "x36", "x31", "n9", "km9"}>>,
              <<"L53", {"k33", "x36", "x31", "n9", "km9"}>>,
              <<"L56", {"k29", "x28", "n6", "km6", "x34"}>>,
              <<"L57", {"k33", "x36", "x31", "n9", "km9"}>>}
Rebound == {"x28", "x34", "x36", "x31"}

\* C8: whenever a diff is about to run, the expression it differentiates is
\* still symbolic in the variable of differentiation and that name is bound
\* to a symbol; whenever a subs is about to run, each of x28, x34, x36, x31
\* it is keyed on is still bound to a symbol.
C8_SymbolicWhenUsed ==
    /\ \A d \in DiffStmts :
          At(d[1]) => /\ IsSym(env[d[3]])
                      /\ env[d[3]][2] \in FreeSymbols(env[d[2]])
    /\ \A u \in SubsStmts :
          At(u[1]) => \A n \in u[2] \cap Rebound : IsSym(env[n])

\* all four names are rebound to numbers and every derivative and rate has
\* been evaluated to a number
C8_Witness ==
    /\ Executed("L68")
    /\ \A n \in Rebound : IsNum(env[n])
    /\ \A n \in {"pv29x28", "pv29x34", "pv33x36", "pv33x31", "v29", "v33"} :
          IsNum(env[n])

\* C9: one reference point per reaction.  Once the names are rebound, the
\* three substitution lists of a reaction are the same mapping, and the
\* number bound to x28, x34, x36, x31 (the multiplier of the elasticity and
\* the base of the power in the rate constant) is the value those lists
\* substituted for that name.
C9_SingleReferencePoint ==
    Executed("L68") =>
      /\ subsLog["L49"] = subsLog["L50"] /\ subsLog["L50"] = subsLog["L56"]
      /\ subsLog["L52"] = subsLog["L53"] /\ subsLog["L53"] = subsLog["L57"]
      /\ \A n \in {"x28", "x34"} : env[n] = Num(Int2V(subsLog["L56"][n]))
      /\ \A n \in {"x36", "x31"} : env[n] = Num(Int2V(subsLog["L57"][n]))

C9_Witness ==
    /\ Executed("L95") /\ Positive29 /\ Positive33
    /\ subsLog["L56"]["x28"] = ref.x28 /\ ref.x28 # ref.x34
    /\ subsLog["L57"]["x31"] = ref.x31 /\ ref.x31 # ref.x36

\* C10: if computing the i-th value raises, standard output holds the
\* complete blocks of values 1..i-1, then the label line of value i, and
\* nothing after it.
C10_PartialOutput ==
    \A i \in 1 .. 6 :
        (status = "raised" /\ pc <= Len(Order) /\ Order[pc] = ComputeStmts[i]) =>
            stdout = Blocks4(i - 1) \o <<TextLine(Labels[i])>>

C10_Witness ==
    /\ status = "raised" /\ pc <= Len(Order) /\ Order[pc] = "L84"
    /\ Len(stdout) = 13 /\ stdout[13] = TextLine("q33 =")
====
